---- MODULE Spec2Model ----
(***************************************************************************)
(* InstaSeisDB (instaseis/instaseisdb.py): extraction of seismograms from  *)
(* an AxiSEM wavefield database.  The model keeps the opened database      *)
(* (mode, meshes, dump type), the per-mesh strain and displacement         *)
(* buffers, and the record of the call in progress or just returned.       *)
(*                                                                         *)
(* Numeric arrays are abstracted: a trace is [amp, n, ops] with amp an     *)
(* integer amplitude (every combination formula of the code is linear in   *)
(* the stored field and in the source mechanism), n its number of samples  *)
(* and ops the post-processing steps applied to it, in order.  A per-      *)
(* element tensor is the integer Field(mesh, element).                     *)
(***************************************************************************)
EXTENDS Integers, Sequences, FiniteSets, TLC

\* ------------------------------------------------------------------ bounds
MaxComps == 2
MaxSources == 2
BufferCap == 1
NDumps == 3
SourceShiftSamp == 1

\* --------------------------------------------------------------- constants
None == 0
DEFAULT_MU == 32
DbDt == 10000000
KDisplOnly == 6
KOther == 1

Patterns == {"PX", "PZ", "MZZ", "MXX_P_MYY", "MXZ_MYZ", "MXY_MXX_M_MYY"}
MTPatterns == {"MZZ", "MXX_P_MYY", "MXZ_MYZ", "MXY_MXX_M_MYY"}
DumpTypes == {"displ_only", "strain_only", "fullfields"}
CompNames == {"Z", "N", "E", "R", "T"}
Horizontal == {"N", "E", "R", "T"}
BwdMeshes == {"px", "pz"}
FwdMeshes == {"m1", "m2", "m3", "m4"}
MeshNames == BwdMeshes \cup FwdMeshes

VARIABLES db, strain_buffer, displ_buffer, extracted, call, fs, probe

vars == <<db, strain_buffer, displ_buffer, extracted, call, fs, probe>>

\* ------------------------------------------------------------ small helpers
Range(s) == {s[i] : i \in 1..Len(s)}

Abs(x) == IF x < 0 THEN -x ELSE x

Max(a, b) == IF a > b THEN a ELSE b

Min(a, b) == IF a < b THEN a ELSE b

\* ------------------------------------------------- opening the database
\* _find_and_open_files: files is the set of component folders that hold
\* an ordered_output.nc4 (one file each).
OpenResult(files) ==
    IF Cardinality(files) = 0 THEN "InstaseisNotFoundError"
    ELSE IF Cardinality(files) \notin {1, 2, 4} THEN "InstaseisError"
    ELSE IF "PX" \in files \/ "PZ" \in files THEN "reciprocal"
    ELSE IF files # MTPatterns THEN "InstaseisError"
    ELSE "forward"

\* _parse_fs_meshes: MeshCollection_bwd(px, pz), an absent mesh is None.
ParseFsMeshes(files) ==
    {m \in BwdMeshes : (m = "px" /\ "PX" \in files) \/ (m = "pz" /\ "PZ" \in files)}

\* the mesh that is fully parsed (kd-tree, mesh variables).
ParsedMesh(reciprocal, meshes) ==
    IF reciprocal THEN (IF "px" \in meshes THEN "px" ELSE "pz") ELSE "m1"

\* lines 111-127: the object after _parse_fs_meshes or _parse_mt_meshes.
OpenAs(mode, files, dump) ==
    IF mode = "reciprocal"
    THEN [reciprocal |-> TRUE, meshes |-> ParseFsMeshes(files),
          parsed_mesh |-> ParsedMesh(TRUE, ParseFsMeshes(files)),
          dump_type |-> dump]
    ELSE [reciprocal |-> FALSE, meshes |-> FwdMeshes,
          parsed_mesh |-> ParsedMesh(FALSE, FwdMeshes),
          dump_type |-> dump]

OpenDB(files, dump) == OpenAs(OpenResult(files), files, dump)

\* Mesh(..., strain_buffer_size_in_mb, displ_buffer_size_in_mb): the budget
\* of each buffer, counted in per-element tensors.
StrainCap(d) == IF d.reciprocal THEN BufferCap ELSE 0

DisplCap(d) == IF d.reciprocal THEN 0 ELSE BufferCap

\* ------------------------------------------------------ extraction buffer
\* mesh.Buffer: an ordered map id -> tensor under a byte budget.
BufferContains(buf, id) == \E i \in 1..Len(buf) : buf[i].id = id

BufferIndex(buf, id) == CHOOSE i \in 1..Len(buf) : buf[i].id = id

\* get: the entry is moved to the end, so it is removed last.
BufferGet(buf, id) ==
    LET i == BufferIndex(buf, id)
    IN  [hit |-> TRUE, val |-> buf[i].val,
         buf |-> SubSeq(buf, 1, i - 1) \o SubSeq(buf, i + 1, Len(buf)) \o <<buf[i]>>]

\* add: insert, then drop the oldest entries until the budget is met.
BufferAdd(buf, cap, id, val) ==
    LET all == SelectSeq(buf, LAMBDA x : x.id # id) \o <<[id |-> id, val |-> val]>>
    IN  IF Len(all) > cap THEN SubSeq(all, Len(all) - cap + 1, Len(all)) ELSE all

\* ------------------------------------------------------- stored wavefields
MeshNum(m) ==
    CASE m = "px" -> 1 [] m = "pz" -> 2 [] m = "m1" -> 3
      [] m = "m2" -> 4 [] m = "m3" -> 5 [] m = "m4" -> 6

\* the samples stored for an element in a mesh's Snapshots group.
Field(m, e) == 10 * MeshNum(m) + e

\* mesh_mu at the element's central GLL point, in GPa.
MeshMu(e) == DEFAULT_MU * (e + 1)

\* ------------------------------------------------------------ point location
\* Receiver (reciprocal) or source (forward) positions after rotate_frame_rd.
Points == {1, 2, 3}

\* kdtree.query([s, z], k): element ids, nearest first.
KdTreeQuery(pt, k) ==
    SubSeq(IF pt = 1 THEN <<2, 1, 3, 4, 5, 6>> ELSE <<1, 2, 3, 4, 5, 6>>, 1, k)

\* finite_elem_mapping.inside_element(s, z, corner_points, eltype, 1E-3).
InsideElement(pt, e) == (pt = 1 /\ e = 1) \/ (pt = 3 /\ e \in {1, 2})

KMap(dump) == IF dump = "displ_only" THEN KDisplOnly ELSE KOther

\* the position in nextpoints of the first candidate that lies in inside.
FirstHit(nextpoints, inside) ==
    CHOOSE i \in 1..Len(nextpoints) :
        /\ nextpoints[i] \in inside
        /\ \A j \in 1..(i - 1) : nextpoints[j] \notin inside

\* LocateIn without the `break` of line 287.
LocateInNoBreak(dump, nextpoints, inside) ==
    IF dump = "displ_only"
    THEN IF \A i \in 1..Len(nextpoints) : nextpoints[i] \notin inside
         THEN [ok |-> FALSE, id |-> 0, tested |-> Len(nextpoints),
               coords_of |-> nextpoints[Len(nextpoints)]]
         ELSE [ok |-> TRUE,
               id |-> nextpoints[CHOOSE i \in 1..Len(nextpoints) :
                         /\ nextpoints[i] \in inside
                         /\ \A j \in (i + 1)..Len(nextpoints) :
                               nextpoints[j] \notin inside],
               tested |-> Len(nextpoints),
               coords_of |-> nextpoints[Len(nextpoints)]]
    ELSE [ok |-> TRUE, id |-> nextpoints[1], tested |-> 0, coords_of |-> 0]

\* lines 261-305, given the candidates of the kd-tree (nearest first) and
\* the set of elements whose inside_element test passes:
\* [ok, id, tested, coords_of]; tested = number of candidates whose corner
\* points were read and tested, coords_of = the candidate whose test gave
\* the xi, eta in use afterwards (0: none was run).
LocateIn(dump, nextpoints, inside) ==
    IF dump = "displ_only"
    THEN IF \A i \in 1..Len(nextpoints) : nextpoints[i] \notin inside
         THEN [ok |-> FALSE, id |-> 0, tested |-> Len(nextpoints),
               coords_of |-> nextpoints[Len(nextpoints)]]
         ELSE [ok |-> TRUE, id |-> nextpoints[FirstHit(nextpoints, inside)],
               tested |-> FirstHit(nextpoints, inside),
               coords_of |-> nextpoints[FirstHit(nextpoints, inside)]]
    ELSE [ok |-> TRUE, id |-> nextpoints[1], tested |-> 0, coords_of |-> 0]

\* lines 254-305 for a point of the mesh.
Locate(d, pt) ==
    LocateIn(d.dump_type, KdTreeQuery(pt, KMap(d.dump_type)),
             {e \in 1..KDisplOnly : InsideElement(pt, e)})

\* ---------------------------------------------------- sources and inputs
\* instaseis.source objects: kind is the class, m the scalar moment or
\* force, dt and sliprate the attached source time function (None when
\* absent; sliprate is its gain relative to the database's own).
SrcA == [kind |-> "Source", m |-> 1, dt |-> DbDt, sliprate |-> 2]
SrcB == [kind |-> "Source", m |-> 2, dt |-> DbDt + 1, sliprate |-> 1]
SrcNoDt == [kind |-> "Source", m |-> 1, dt |-> None, sliprate |-> 1]
SrcNoSliprate == [kind |-> "Source", m |-> 1, dt |-> DbDt + 2, sliprate |-> None]
SrcBadDt == [kind |-> "Source", m |-> 1, dt |-> DbDt + 2, sliprate |-> 1]
SrcForce == [kind |-> "ForceSource", m |-> 1, dt |-> DbDt, sliprate |-> 1]

Sources == {SrcA, SrcB, SrcNoDt, SrcNoSliprate, SrcBadDt, SrcForce}

\* sub-sources of a finite source (a list of Source objects).
SubSources == {SrcA, SrcB, SrcBadDt}

SeqsUpTo(S, n) == UNION {[1..k -> S] : k \in 0..n}

CompTuples == SeqsUpTo(CompNames, MaxComps)

SourceLists == SeqsUpTo(SubSources, MaxSources)

TargetDts == {None, DbDt, 2 * DbDt}

\* --------------------------------------------------------- field extraction
NoEntry == [id |-> 0, val |-> 0]

NoExtraction == [m \in MeshNames |-> [strain |-> NoEntry, displ |-> NoEntry]]

EmptyBuffers == [m \in MeshNames |-> <<>>]

\* the running context of one get_seismograms call: the buffers, what was
\* touched so far, and the tensor last extracted from each mesh (out).
NewCtx(sb, dbuf, ex) ==
    [sb |-> sb, dbuf |-> dbuf, ex |-> ex, reads |-> {}, consulted |-> {},
     added |-> {}, extr |-> {}, out |-> [m \in MeshNames |-> 0]]

\* `if id_elem not in buffer:` read the Snapshots, decode, buffer.add;
\* `else:` buffer.get.  [hit, val, buf]
ReadOrGet(buf, cap, m, e) ==
    IF BufferContains(buf, e) THEN BufferGet(buf, e)
    ELSE [hit |-> FALSE, val |-> Field(m, e),
          buf |-> BufferAdd(buf, cap, e, Field(m, e))]

\* the context after an extraction with result r = [hit, val, buf].
Extracted(ctx, which, m, e, r) ==
    [sb |-> IF which = "strain" THEN [ctx.sb EXCEPT ![m] = r.buf] ELSE ctx.sb,
     dbuf |-> IF which = "displ" THEN [ctx.dbuf EXCEPT ![m] = r.buf] ELSE ctx.dbuf,
     ex |-> [ctx.ex EXCEPT ![m][which] = [id |-> e, val |-> r.val]],
     reads |-> IF r.hit THEN ctx.reads ELSE ctx.reads \cup {m},
     consulted |-> ctx.consulted \cup {m},
     added |-> IF r.hit THEN ctx.added ELSE ctx.added \cup {m},
     extr |-> ctx.extr \cup
              {[mesh |-> m, buffer |-> which, id |-> e, tensor |-> r.val,
                read |-> ~r.hit, repeat |-> ctx.ex[m][which].id = e,
                prev_tensor |-> ctx.ex[m][which].val]},
     out |-> [ctx.out EXCEPT ![m] = r.val]]

\* the buffer protocol shared by the three extraction paths.
BufferedExtract(ctx, which, cap, m, e) ==
    Extracted(ctx, which, m, e,
              ReadOrGet(IF which = "strain" THEN ctx.sb[m] ELSE ctx.dbuf[m],
                        cap, m, e))

\* __get_strain_interp: strain from nodal displacement, strain_buffer.
GetStrainInterp(ctx, d, m, e) == BufferedExtract(ctx, "strain", StrainCap(d), m, e)

\* __get_strain: whole-element strain, strain_buffer.
GetStrain(ctx, d, m, e) == BufferedExtract(ctx, "strain", StrainCap(d), m, e)

\* __get_displacement: nodal displacement, displ_buffer.
GetDisplacement(ctx, d, m, e) == BufferedExtract(ctx, "displ", DisplCap(d), m, e)

\* ------------------------------------------------------------ traces
RawTrace(amp) == [amp |-> amp, n |-> NDumps, ops |-> <<>>]

\* data[comp][self.parsed_mesh.source_shift_samp:]
Trim(tr) ==
    [tr EXCEPT !.n = Max(@ - SourceShiftSamp, 0), !.ops = Append(@, "trim")]

\* irfft(dataf * stf_conv_f / stf_deconv_f)[:self.ndumps]
Reconvolve(tr, src) ==
    [amp |-> tr.amp * src.sliprate, n |-> NDumps, ops |-> Append(tr.ops, "reconvolve")]

\* lanczos.lanczos_resamp(data, old_dt, new_dt, a): the new sample count.
ResampleLen(n, old_dt, new_dt) ==
    IF n = 0 THEN 0 ELSE ((n - 1) * old_dt) \div new_dt + 1

Resample(tr, dt) ==
    [tr EXCEPT !.n = ResampleLen(@, DbDt, dt), !.ops = Append(@, "resample")]

\* ----------------------------------------------------- get_seismograms
NeedsZ(components) == "Z" \in Range(components)

NeedsX(components) == Range(components) \cap Horizontal # {}

\* lines 225-231: the meshes a reciprocal database must hold.
\* MeshCheck without the test of line 230.
MeshCheckNoZ(d, components) ==
    IF d.reciprocal /\ NeedsX(components) /\ "px" \notin d.meshes
    THEN "ValueError: vertical component only DB"
    ELSE "ok"

MeshCheck(d, components) ==
    IF d.reciprocal /\ NeedsX(components) /\ "px" \notin d.meshes
    THEN "ValueError: vertical component only DB"
    ELSE IF d.reciprocal /\ NeedsZ(components) /\ "pz" \notin d.meshes
    THEN "ValueError: horizontal component only DB"
    ELSE "ok"

\* lines 361-398: one component from the strain of the two force meshes.
CombineStrain(comp, m, strain_z, strain_x) ==
    CASE comp = "Z" -> m * strain_z
      [] comp = "R" -> 0 - m * strain_x
      [] comp = "T" -> m * strain_x
      [] comp = "E" -> m * strain_x
      [] comp = "N" -> 0 - m * strain_x

\* lines 426-456: one component from the displacement of the force meshes.
CombineDispl(comp, m, displ_z, displ_x) ==
    CASE comp = "Z" -> m * displ_z
      [] comp = "R" -> m * displ_x
      [] comp = "T" -> m * displ_x
      [] comp = "E" -> m * displ_x
      [] comp = "N" -> 0 - m * displ_x

\* lines 480-533: one component from the four moment-tensor meshes; the
\* phi component of final holds only displ_3 and displ_4.
CombineForward(comp, m, d1, d2, d3, d4) ==
    IF comp = "T" THEN 0 - m * (d3 + d4) ELSE m * (d1 + d2 + d3 + d4)

\* the extraction path of a moment-tensor source by dump type.
StrainOf(ctx, d, m, e) ==
    IF d.dump_type = "displ_only" THEN GetStrainInterp(ctx, d, m, e)
    ELSE GetStrain(ctx, d, m, e)

\* ForceDumpCheck without the test of line 401.
ForceDumpCheckNone(d) == "ok"

\* lines 401-402
ForceDumpCheck(d) ==
    IF d.dump_type # "displ_only"
    THEN "ValueError: Force sources only in displ_only mode"
    ELSE "ok"

\* lines 462-465
ForwardCheck(d, src) ==
    IF src.kind # "Source" THEN "NotImplementedError"
    ELSE IF d.dump_type # "displ_only" THEN "NotImplementedError"
    ELSE "ok"

\* ReadZ without the guard: PZ is read whatever was requested.
ReadZAlways(components) == TRUE

\* lines 329, 361, 404, 426: the guard of everything read from PZ.
ReadZ(components) == NeedsZ(components)

\* lines 339, 410: the guard of everything read from PX.
ReadX(components) == NeedsX(components)

\* lines 329-337: strain of the PZ mesh, only if Z is requested.
StrainZ(ctx, d, e, components) ==
    IF ReadZ(components) THEN StrainOf(ctx, d, "pz", e) ELSE ctx

\* lines 339-347: strain of the PX mesh, only if N, E, R or T is requested.
StrainX(ctx, d, e, components) ==
    IF ReadX(components) THEN StrainOf(ctx, d, "px", e) ELSE ctx

\* lines 349-398
SourceData(ctx, src, components) ==
    [err |-> "ok", ctx |-> ctx,
     data |-> [c \in Range(components) |->
                 RawTrace(CombineStrain(c, src.m, ctx.out["pz"], ctx.out["px"]))]]

\* lines 404-408
DisplZ(ctx, d, e, components) ==
    IF ReadZ(components) THEN GetDisplacement(ctx, d, "pz", e) ELSE ctx

\* lines 410-414
DisplX(ctx, d, e, components) ==
    IF ReadX(components) THEN GetDisplacement(ctx, d, "px", e) ELSE ctx

\* lines 416-456
ForceData(ctx, src, components) ==
    [err |-> "ok", ctx |-> ctx,
     data |-> [c \in Range(components) |->
                 RawTrace(CombineDispl(c, src.m, ctx.out["pz"], ctx.out["px"]))]]

\* lines 309-459: [err, ctx, data]
SynthReciprocal(ctx, d, src, e, components) ==
    IF src.kind = "Source"
    THEN SourceData(StrainX(StrainZ(ctx, d, e, components), d, e, components),
                    src, components)
    ELSE IF src.kind = "ForceSource"
    THEN IF ForceDumpCheck(d) # "ok"
         THEN [err |-> ForceDumpCheck(d), ctx |-> ctx, data |-> <<>>]
         ELSE ForceData(DisplX(DisplZ(ctx, d, e, components), d, e, components),
                        src, components)
    ELSE [err |-> "NotImplementedError", ctx |-> ctx, data |-> <<>>]

\* lines 480-533
ForwardData(ctx, src, components) ==
    [err |-> "ok", ctx |-> ctx,
     data |-> [c \in Range(components) |->
                 RawTrace(CombineForward(c, src.m, ctx.out["m1"], ctx.out["m2"],
                                         ctx.out["m3"], ctx.out["m4"]))]]

\* lines 461-533: [err, ctx, data]
SynthForward(ctx, d, src, e, components) ==
    IF ForwardCheck(d, src) # "ok"
    THEN [err |-> ForwardCheck(d, src), ctx |-> ctx, data |-> <<>>]
    ELSE ForwardData(
             GetDisplacement(
                 GetDisplacement(
                     GetDisplacement(
                         GetDisplacement(ctx, d, "m1", e), d, "m2", e),
                     d, "m3", e),
                 d, "m4", e),
             src, components)

\* ------------------------------------------------------- post-processing
TolInv == 10000000

\* StfCheck with the two tests in the other order.
StfCheckDtFirst(src) ==
    IF src.dt # None /\ Abs(src.dt - DbDt) * TolInv > DbDt
    THEN "ValueError: dt of the source not compatible"
    ELSE IF src.dt = None \/ src.sliprate = None
    THEN "RuntimeError: source has no source time function"
    ELSE "ok"

\* lines 539-546: the checks made before a trace is reconvolved.
StfCheck(src) ==
    IF src.dt = None \/ src.sliprate = None
    THEN "RuntimeError: source has no source time function"
    ELSE IF Abs(src.dt - DbDt) * TolInv > DbDt
    THEN "ValueError: dt of the source not compatible"
    ELSE "ok"

\* PostBranch with `if remove_source_shift:` as the first test.
PostBranchTrimFirst(remove_source_shift, reconvolve_stf) ==
    IF remove_source_shift THEN "trim"
    ELSE IF reconvolve_stf THEN "reconvolve"
    ELSE "none"

\* lines 536, 538: which branch of the if / elif runs for a component.
PostBranch(remove_source_shift, reconvolve_stf) ==
    IF remove_source_shift /\ ~reconvolve_stf THEN "trim"
    ELSE IF reconvolve_stf THEN "reconvolve"
    ELSE "none"

\* MaybeResample with a comparison against the native interval.
MaybeResampleIfDiffers(tr, dt) ==
    IF dt # None /\ dt # DbDt THEN Resample(tr, dt) ELSE tr

\* lines 563-565
MaybeResample(tr, dt) == IF dt # None THEN Resample(tr, dt) ELSE tr

\* lines 536-565, the body of `for comp in components`: [err, tr]
PostProcessOne(tr, src, remove_source_shift, reconvolve_stf, dt) ==
    CASE PostBranch(remove_source_shift, reconvolve_stf) = "trim" ->
             [err |-> "ok", tr |-> MaybeResample(Trim(tr), dt)]
      [] PostBranch(remove_source_shift, reconvolve_stf) = "reconvolve" ->
             IF StfCheck(src) # "ok" THEN [err |-> StfCheck(src), tr |-> tr]
             ELSE [err |-> "ok", tr |-> MaybeResample(Reconvolve(tr, src), dt)]
      [] OTHER -> [err |-> "ok", tr |-> MaybeResample(tr, dt)]

\* the loop goes on after a pass with result r = [err, tr].
RECURSIVE PostProcess(_, _, _, _, _, _, _)
PostProcessNext(data, components, i, src, remove_source_shift, reconvolve_stf, dt, r) ==
    IF r.err # "ok" THEN [err |-> r.err, data |-> data]
    ELSE PostProcess([data EXCEPT ![components[i]] = r.tr], components, i + 1,
                     src, remove_source_shift, reconvolve_stf, dt)

\* lines 535-565: the loop over the requested tuple, from index i on.
PostProcess(data, components, i, src, remove_source_shift, reconvolve_stf, dt) ==
    IF i > Len(components) THEN [err |-> "ok", data |-> data]
    ELSE PostProcessNext(data, components, i, src, remove_source_shift,
                         reconvolve_stf, dt,
                         PostProcessOne(data[components[i]], src,
                                        remove_source_shift, reconvolve_stf, dt))

\* lines 567-587: what the call returns; gll_point_ids is bound only on
\* the displ_only path of point location.
ReturnCheck(d, return_obspy_stream) ==
    IF ~return_obspy_stream /\ d.dump_type # "displ_only"
    THEN "UnboundLocalError: gll_point_ids"
    ELSE "ok"

\* the accesses to the parsed mesh (spatial index, Mesh group variables).
GeomOf(d, loc, mu_read) ==
    {"kdtree"}
    \cup (IF loc.tested > 0 THEN {"corner_points"} ELSE {})
    \cup (IF loc.ok /\ d.dump_type = "displ_only" THEN {"sem_mesh"} ELSE {})
    \cup (IF mu_read THEN {"mesh_mu"} ELSE {})

Outcome(status, err, data, mu, ctx, geom, tested, id_elem) ==
    [status |-> status, err |-> err, data |-> data, mu |-> mu,
     reads |-> ctx.reads, consulted |-> ctx.consulted, added |-> ctx.added,
     extr |-> ctx.extr, geom |-> geom, tested |-> tested, id_elem |-> id_elem,
     sb |-> ctx.sb, dbuf |-> ctx.dbuf, ex |-> ctx.ex]

\* lines 567-587, after post-processing with result post = [err, data].
Returned(d, a, loc, ctx, post) ==
    IF post.err # "ok"
    THEN Outcome("error", post.err, <<>>, None, ctx,
                 GeomOf(d, loc, FALSE), loc.tested, loc.id)
    ELSE IF ReturnCheck(d, a.return_obspy_stream) # "ok"
    THEN Outcome("error", ReturnCheck(d, a.return_obspy_stream), <<>>, None, ctx,
                 GeomOf(d, loc, FALSE), loc.tested, loc.id)
    ELSE Outcome("ok", "", post.data,
                 IF a.return_obspy_stream THEN None ELSE MeshMu(loc.id),
                 ctx, GeomOf(d, loc, ~a.return_obspy_stream),
                 loc.tested, loc.id)

\* lines 535-587, after synthesis with result syn = [err, ctx, data].
Synthesized(d, a, loc, syn) ==
    IF syn.err # "ok"
    THEN Outcome("error", syn.err, <<>>, None, syn.ctx,
                 GeomOf(d, loc, FALSE), loc.tested, loc.id)
    ELSE Returned(d, a, loc, syn.ctx,
                  PostProcess(syn.data, a.components, 1, a.source,
                              a.remove_source_shift, a.reconvolve_stf, a.dt))

\* lines 307-587, after point location with result loc = [ok, id, tested].
Located(d, a, ctx, loc) ==
    IF ~loc.ok
    THEN Outcome("error", "ValueError: Element not found", <<>>, None, ctx,
                 GeomOf(d, loc, FALSE), loc.tested, 0)
    ELSE Synthesized(d, a, loc,
                     IF d.reciprocal
                     THEN SynthReciprocal(ctx, d, a.source, loc.id, a.components)
                     ELSE SynthForward(ctx, d, a.source, loc.id, a.components))

\* get_seismograms, lines 199-587.
GetSeismogramsOp(d, sb, dbuf, ex, a) ==
    IF MeshCheck(d, a.components) # "ok"
    THEN Outcome("error", MeshCheck(d, a.components), <<>>, None,
                 NewCtx(sb, dbuf, ex), {}, 0, 0)
    ELSE Located(d, a, NewCtx(sb, dbuf, ex), Locate(d, a.receiver))

\* the arguments of one get_seismograms call (lines 199-201).
Args(source, receiver, components, remove_source_shift, reconvolve_stf, return_obspy_stream, dt) ==
    [source |-> source, receiver |-> receiver, components |-> components,
     remove_source_shift |-> remove_source_shift,
     reconvolve_stf |-> reconvolve_stf,
     return_obspy_stream |-> return_obspy_stream, dt |-> dt]

NoArgs == Args(SrcA, 1, <<>>, FALSE, FALSE, FALSE, None)

\* the record of a call: what it was given and what came of it.
CallRecord(op, a, o) ==
    [op |-> op, args |-> a, status |-> o.status, err |-> o.err,
     data |-> o.data, mu |-> o.mu, reads |-> o.reads,
     consulted |-> o.consulted, added |-> o.added, extr |-> o.extr,
     geom |-> o.geom, tested |-> o.tested, id_elem |-> o.id_elem]

NoCall ==
    [op |-> "none", args |-> NoArgs, status |-> "", err |-> "", data |-> <<>>,
     mu |-> None, reads |-> {}, consulted |-> {}, added |-> {}, extr |-> {},
     geom |-> {}, tested |-> 0, id_elem |-> 0]

\* ------------------------------------------- get_seismograms_finite_source
\* SubCallArgs with reconvolve_stf left at its default.
SubCallArgsDefault(source, receiver, components) ==
    Args(source, receiver, components, TRUE, FALSE, FALSE, None)

\* lines 616-618: how each sub-source is synthesized.
SubCallArgs(source, receiver, components) ==
    Args(source, receiver, components, TRUE, TRUE, FALSE, None)

\* lines 620-623
CorrFac(correct_mu, mu) == IF correct_mu THEN mu \div DEFAULT_MU ELSE 1

Scale(tr, f) == [tr EXCEPT !.amp = @ * f]

\* Accumulate with `=` in place of `+=`.
RECURSIVE AccumulateOverwrite(_, _, _, _, _)
AccumulateOverwrite(data_summed, data, components, i, corr_fac) ==
    IF i > Len(components) THEN data_summed
    ELSE AccumulateOverwrite(
             (components[i] :> Scale(data[components[i]], corr_fac)) @@ data_summed,
             data, components, i + 1, corr_fac)

\* lines 625-629: the loop over the requested tuple, from index i on.
RECURSIVE Accumulate(_, _, _, _, _)
Accumulate(data_summed, data, components, i, corr_fac) ==
    IF i > Len(components) THEN data_summed
    ELSE LET comp == components[i]
             next == IF comp \in DOMAIN data_summed
                     THEN [data_summed EXCEPT
                             ![comp].amp = @ + data[comp].amp * corr_fac]
                     ELSE (comp :> Scale(data[comp], corr_fac)) @@ data_summed
         IN  Accumulate(next, data, components, i + 1, corr_fac)

\* ProgressArgs with _i in place of _i + 1.
ProgressArgsFromZero(i, count) == <<i, count>>

\* line 631: the arguments of the progress callback after sub-source _i.
ProgressArgs(i, count) == <<i + 1, count>>

\* lines 635-638: the loop over the requested tuple, from index i on.
RECURSIVE ResampleAll(_, _, _, _)
ResampleAll(data_summed, components, i, dt) ==
    IF i > Len(components) THEN data_summed
    ELSE ResampleAll([data_summed EXCEPT ![components[i]] = Resample(@, dt)],
                     components, i + 1, dt)

FsIdle ==
    [pc |-> "idle", sources |-> <<>>, receiver |-> 1, components |-> <<>>,
     dt |-> None, correct_mu |-> FALSE, has_callback |-> FALSE, i |-> 0,
     data_summed |-> <<>>, parts |-> <<>>, subcalls |-> <<>>, callbacks |-> <<>>,
     result |-> "", err |-> "", data |-> <<>>]

\* --------------------------------------------------------------- the system
\* probe: what a step that is looked at on its own was given and returned.
NoProbe == [op |-> "none"]

Init ==
    /\ \E files \in SUBSET Patterns, dump \in DumpTypes :
          /\ OpenResult(files) \in {"reciprocal", "forward"}
          /\ db = OpenDB(files, dump)
    /\ strain_buffer = EmptyBuffers
    /\ displ_buffer = EmptyBuffers
    /\ extracted = NoExtraction
    /\ call = NoCall
    /\ fs = FsIdle
    /\ probe = NoProbe

Idle == call.op = "none" /\ fs.pc = "idle" /\ probe = NoProbe

\* the state after get_seismograms returned or raised with outcome o.
CallEffect(a, o) ==
    /\ call' = CallRecord("get_seismograms", a, o)
    /\ strain_buffer' = o.sb
    /\ displ_buffer' = o.dbuf
    /\ extracted' = o.ex

CallDone(a) ==
    CallEffect(a, GetSeismogramsOp(db, strain_buffer, displ_buffer, extracted, a))

\* a call of get_seismograms, from entry to return.
GetSeismograms ==
    /\ Idle
    /\ \E source \in Sources, receiver \in Points, components \in CompTuples,
          remove_source_shift \in BOOLEAN, reconvolve_stf \in BOOLEAN,
          return_obspy_stream \in BOOLEAN, dt \in TargetDts :
          CallDone(Args(source, receiver, components, remove_source_shift,
                        reconvolve_stf, return_obspy_stream, dt))
    /\ UNCHANGED <<db, fs, probe>>

\* FiniteModeCheck without the test of line 610.
FiniteModeCheckNone(d) == "ok"

\* lines 610-611
FiniteModeCheck(d) == IF ~d.reciprocal THEN "NotImplementedError" ELSE "ok"

\* lines 610-614
FiniteStart ==
    /\ Idle
    /\ \E sources \in SourceLists, receiver \in Points,
          components \in CompTuples, dt \in TargetDts,
          correct_mu \in BOOLEAN, has_callback \in BOOLEAN :
          fs' = [FsIdle EXCEPT
                   !.pc = IF FiniteModeCheck(db) = "ok" THEN "loop" ELSE "done",
                   !.result = IF FiniteModeCheck(db) = "ok" THEN "" ELSE "error",
                   !.err = IF FiniteModeCheck(db) = "ok" THEN ""
                           ELSE FiniteModeCheck(db),
                   !.sources = sources, !.receiver = receiver,
                   !.components = components, !.dt = dt,
                   !.correct_mu = correct_mu, !.has_callback = has_callback]
    /\ UNCHANGED <<db, strain_buffer, displ_buffer, extracted, call, probe>>

\* lines 620-633: the rest of the pass once get_seismograms returned o.
StepEffect(a, o, cancel) ==
    /\ strain_buffer' = o.sb
    /\ displ_buffer' = o.dbuf
    /\ extracted' = o.ex
    /\ fs' = IF o.status = "error"
             THEN [fs EXCEPT !.pc = "done", !.result = "error", !.err = o.err,
                             !.subcalls = Append(@, a)]
             ELSE [fs EXCEPT
                     !.pc = IF cancel THEN "done" ELSE "loop",
                     !.result = IF cancel THEN "None" ELSE "",
                     !.i = @ + 1,
                     !.data_summed = Accumulate(@, o.data, fs.components, 1,
                                                CorrFac(fs.correct_mu, o.mu)),
                     !.parts = Append(@, o.data),
                     !.subcalls = Append(@, a),
                     !.callbacks =
                         IF fs.has_callback
                         THEN Append(@, [args |-> ProgressArgs(fs.i, Len(fs.sources)),
                                         cancel |-> cancel])
                         ELSE @]

StepDone(a, cancel) ==
    StepEffect(a, GetSeismogramsOp(db, strain_buffer, displ_buffer, extracted, a),
               cancel)

\* lines 615-633: one pass of the loop over the sub-sources.
FiniteStep ==
    /\ fs.pc = "loop"
    /\ fs.i < Len(fs.sources)
    /\ \E cancel \in (IF fs.has_callback THEN BOOLEAN ELSE {FALSE}) :
          StepDone(SubCallArgs(fs.sources[fs.i + 1], fs.receiver, fs.components),
                   cancel)
    /\ UNCHANGED <<db, call, probe>>

\* lines 635-652: after the loop.
FiniteFinish ==
    /\ fs.pc = "loop"
    /\ fs.i = Len(fs.sources)
    /\ fs' = IF Range(fs.components) \subseteq DOMAIN fs.data_summed
             THEN [fs EXCEPT !.pc = "done", !.result = "stream",
                             !.data = IF fs.dt # None
                                      THEN ResampleAll(fs.data_summed,
                                                       fs.components, 1, fs.dt)
                                      ELSE fs.data_summed]
             ELSE [fs EXCEPT !.pc = "done", !.result = "error",
                             !.err = "KeyError"]
    /\ UNCHANGED <<db, strain_buffer, displ_buffer, extracted, call, probe>>

\* the caller takes the result; the database is ready for the next call.
Release ==
    /\ \/ call.op # "none"
       \/ fs.pc = "done"
       \/ probe # NoProbe
    /\ call' = NoCall
    /\ fs' = FsIdle
    /\ probe' = NoProbe
    /\ UNCHANGED <<db, strain_buffer, displ_buffer, extracted>>

\* calls of get_seismograms, one after the other.
Next == GetSeismograms \/ Release

Spec == Init /\ [][Next]_vars

\* calls of get_seismograms_finite_source, one after the other.
NextFinite == FiniteStart \/ FiniteStep \/ FiniteFinish \/ Release

SpecFinite == Init /\ [][NextFinite]_vars

\* ------------------------------------------------------- depth overrides
\* depth_in_m of a Source or Receiver: None, or a depth given by the caller.
Depths == {None, 1}

\* lines 233-235 and 244-246: the warnings a call issues.
DepthWarnings(d, receiver_depth, source_depth) ==
    IF d.reciprocal
    THEN (IF receiver_depth # None
          THEN {"Receiver depth cannot be changed when reading from reciprocal DB"}
          ELSE {})
    ELSE (IF source_depth # None
          THEN {"Source depth cannot be changed when reading from forward DB"}
          ELSE {})

\* x(), y(), z() of a source or receiver: fixed by its position and depth.
XYZ(pos, depth) == <<pos, depth>>

\* rotations.rotate_frame_rd(x, y, z, longitude, colatitude): the point in
\* the mesh; a point below the surface is another point of the mesh.
RotateFrameRd(xyz) ==
    IF xyz[2] = None THEN xyz[1] ELSE (xyz[1] % Cardinality(Points)) + 1

\* RotateFrame with the coordinates taken from the other party.
RotateFrameSwapped(d, pos, receiver_depth, source_depth) ==
    IF d.reciprocal THEN RotateFrameRd(XYZ(pos, receiver_depth))
    ELSE RotateFrameRd(XYZ(pos, source_depth))

\* lines 237-241 (reciprocal: the source's coordinates, the receiver's
\* angles) and 248-252 (forward: the receiver's coordinates, the source's
\* angles).
RotateFrame(d, pos, receiver_depth, source_depth) ==
    IF d.reciprocal THEN RotateFrameRd(XYZ(pos, source_depth))
    ELSE RotateFrameRd(XYZ(pos, receiver_depth))

\* a call of get_seismograms with its other arguments at their defaults,
\* the depths of source and receiver given.
DepthCall ==
    /\ Idle
    /\ \E source \in Sources, pos \in Points, components \in CompTuples,
          receiver_depth \in Depths, source_depth \in Depths :
          /\ CallDone(Args(source,
                           RotateFrame(db, pos, receiver_depth, source_depth),
                           components, TRUE, FALSE, TRUE, None))
          /\ probe' = [op |-> "depth", pos |-> pos, receiver_depth |-> receiver_depth,
                     source_depth |-> source_depth,
                     warnings |-> DepthWarnings(db, receiver_depth, source_depth)]
    /\ UNCHANGED <<db, fs>>

NextDepth == DepthCall \/ Release

SpecDepth == Init /\ [][NextDepth]_vars

\* ------------------------------------------------------ opening, in full
\* the most ordered_output.nc4 files found under one folder name.
MaxPerFolder == 2

\* the folder names a found file can lie under: the six patterns, or none
\* of them.
FoundFolders == Patterns \cup {"OTHER"}

\* found_files, as the number of files found under each folder name.
FoundFiles == [FoundFolders -> 0..MaxPerFolder]

\* len(found_files)
Total(found) ==
    found["PX"] + found["PZ"] + found["MZZ"] + found["MXX_P_MYY"]
        + found["MXZ_MYZ"] + found["MXY_MXX_M_MYY"] + found["OTHER"]

\* netcdf_files.keys()
Keys(found) == {p \in Patterns : found[p] > 0}

\* FindAndOpen with `in` for `not in` in the test of line 115.
FindAndOpenAnyMT(found) ==
    IF Total(found) = 0 THEN "InstaseisNotFoundError"
    ELSE IF Total(found) \notin {1, 2, 4} THEN "InstaseisError"
    ELSE IF \E p \in Patterns : found[p] > 1 THEN "InstaseisError"
    ELSE IF "PX" \in Keys(found) \/ "PZ" \in Keys(found) THEN "reciprocal"
    ELSE IF Keys(found) = {} THEN "InstaseisError"
    ELSE "forward"

\* _find_and_open_files, lines 84-122; the test of lines 113-114 is always
\* true (a non-empty string is one of its operands), so line 122 is never
\* reached.
FindAndOpen(found) ==
    IF Total(found) = 0 THEN "InstaseisNotFoundError"
    ELSE IF Total(found) \notin {1, 2, 4} THEN "InstaseisError"
    ELSE IF \E p \in Patterns : found[p] > 1 THEN "InstaseisError"
    ELSE IF "PX" \in Keys(found) \/ "PZ" \in Keys(found) THEN "reciprocal"
    ELSE IF Keys(found) # MTPatterns THEN "InstaseisError"
    ELSE "forward"

\* no InstaSeisDB object: the constructor has not run, or it raised.
Closed ==
    [reciprocal |-> FALSE, meshes |-> {}, parsed_mesh |-> "none",
     dump_type |-> "none"]

IsOpen == db # Closed

InitClosed ==
    /\ db = Closed
    /\ strain_buffer = EmptyBuffers
    /\ displ_buffer = EmptyBuffers
    /\ extracted = NoExtraction
    /\ call = NoCall
    /\ fs = FsIdle
    /\ probe = NoProbe

\* __init__, lines 63-66: InstaSeisDB(db_path) on a folder tree.
Open ==
    /\ ~IsOpen
    /\ Idle
    /\ \E found \in FoundFiles, dump \in DumpTypes :
          /\ db' = IF FindAndOpen(found) \in {"reciprocal", "forward"}
                   THEN OpenAs(FindAndOpen(found), Keys(found), dump)
                   ELSE Closed
          /\ probe' = [op |-> "open", found |-> found, result |-> FindAndOpen(found)]
    /\ UNCHANGED <<strain_buffer, displ_buffer, extracted, call, fs>>

\* a database is opened, then used for any sequence of calls.
NextOpen ==
    \/ Open
    \/ IsOpen /\ GetSeismograms
    \/ IsOpen /\ FiniteStart
    \/ FiniteStep
    \/ FiniteFinish
    \/ Release

SpecOpen == InitClosed /\ [][NextOpen]_vars

\* ------------------------------------------------- point location, on its own
\* what the kd-tree of the centre points can answer for KDisplOnly
\* neighbours: the elements in any order of distance.
Orders ==
    {o \in [1..KDisplOnly -> 1..KDisplOnly] :
        \A i, j \in 1..KDisplOnly : o[i] = o[j] => i = j}

\* lines 252-305 of get_seismograms for a point whose neighbours are
\* `order` and for which the elements of `inside` pass inside_element.
LocatePoint ==
    /\ Idle
    /\ \E order \in Orders, inside \in SUBSET (1..KDisplOnly) :
          probe' = [op |-> "locate",
                    nextpoints |-> SubSeq(order, 1, KMap(db.dump_type)),
                    inside |-> inside,
                    result |-> LocateIn(db.dump_type,
                                        SubSeq(order, 1, KMap(db.dump_type)), inside)]
    /\ UNCHANGED <<db, strain_buffer, displ_buffer, extracted, call, fs>>

NextLocate == LocatePoint \/ Release

SpecLocate == Init /\ [][NextLocate]_vars

\* ---------------------------------------- reconvolution lengths, on their own
MaxNDumps == 9
MaxStfLen == 5

\* obspy.signal.util.nextpow2: 2 ** ceil(log2(i)), the smallest power of
\* two that is not below i.
RECURSIVE Pow2From(_, _)
Pow2From(p, i) == IF p >= i THEN p ELSE Pow2From(2 * p, i)

nextpow2(i) == Pow2From(1, i)

\* Nfft without the `* 2` of line 125.
NfftNoDouble(ndumps) == nextpow2(ndumps)

\* line 125: self.nfft
Nfft(ndumps) == nextpow2(ndumps) * 2

\* np.fft.rfft(a, n): the input is cropped or zero-padded to n samples and
\* the spectrum has n // 2 + 1 bins.
Rfft(len, n) == [n |-> n, used |-> Min(len, n), bins |-> n \div 2 + 1]

\* lines 542-561 for a database of ndumps samples whose nfft is given and a
\* substitute slip rate of stf_len samples: the three spectra and the
\* length of the trace that is stored back.
\* np.fft.irfft gives 2 * (bins - 1) samples.
ReconvolveLengths(ndumps, nfft, stf_len) ==
    [stf_deconv_f |-> Rfft(ndumps, nfft),
     stf_conv_f |-> Rfft(stf_len, nfft),
     dataf |-> Rfft(ndumps, nfft),
     out |-> Min(2 * (Rfft(ndumps, nfft).bins - 1), ndumps)]

\* the reconvolution of one component on a database of ndumps samples.
ReconvolveStep ==
    /\ Idle
    /\ \E ndumps \in 1..MaxNDumps, stf_len \in 1..MaxStfLen :
          probe' = [op |-> "reconvolve", ndumps |-> ndumps, stf_len |-> stf_len,
                    nfft |-> Nfft(ndumps),
                    lens |-> ReconvolveLengths(ndumps, Nfft(ndumps), stf_len)]
    /\ UNCHANGED <<db, strain_buffer, displ_buffer, extracted, call, fs>>

NextReconvolve == ReconvolveStep \/ Release

SpecReconvolve == Init /\ [][NextReconvolve]_vars

\* ------------------------------------------ the arrays of a call, by reference
MaxArrayCalls == 3

ArrayElems == {1, 2}

\* the local coordinates xi, eta a tensor is interpolated at.
LocalPoints == {1, 2}

ExcitationTypes == {"monopole", "dipole", "quadpole"}

\* the six strain channels (0..5 at 1..6) of an element, as the strain
\* routine or the Snapshots give them.
ElementTensor(e) == [i \in 1..6 |-> 10 * e + i]

\* spectral_basis.lagrange_interpol_2D_td(..., xi, eta), channel by channel.
Interpolate(tensor, pt) == [i \in 1..6 |-> tensor[i] * pt]

\* final_strain[:, 3] *= -1.0; final_strain[:, 5] *= -1.0
FlipChannels(a) == [a EXCEPT ![4] = 0 - @, ![6] = 0 - @]

\* h = [arrays, at_add, strain, displ, late, summed]: the arrays alive, what
\* each held when buffer.add took it (<<>>: never added), the two buffers
\* (element id -> reference), the references written in place while
\* buffered, and the reference of data_summed[comp] (0: not yet bound).
\* Buffered: array ref is held by one of the buffers.
Buffered(h, ref) ==
    \/ \E i \in 1..Len(h.strain) : h.strain[i].val = ref
    \/ \E i \in 1..Len(h.displ) : h.displ[i].val = ref

\* np.zeros / np.empty / the result of an arithmetic expression.
NewArray(h, content) ==
    [h EXCEPT !.arrays = Append(@, content), !.at_add = Append(@, <<>>)]

LastRef(h) == Len(h.arrays)

\* an assignment to a slice of, or an augmented assignment on, array ref.
WriteInPlace(h, ref, content) ==
    [h EXCEPT !.arrays[ref] = content,
              !.late = IF Buffered(h, ref) THEN @ \cup {ref} ELSE @]

\* mesh.strain_buffer.add / mesh.displ_buffer.add of the array just made.
AddLast(h, which, cap, e) ==
    IF which = "strain"
    THEN [h EXCEPT !.strain = BufferAdd(@, cap, e, LastRef(h)),
                   !.at_add[LastRef(h)] = h.arrays[LastRef(h)]]
    ELSE [h EXCEPT !.displ = BufferAdd(@, cap, e, LastRef(h)),
                   !.at_add[LastRef(h)] = h.arrays[LastRef(h)]]

\* buffer.get
GetFrom(h, which, e) ==
    IF which = "strain"
    THEN [h |-> [h EXCEPT !.strain = BufferGet(@, e).buf],
          ref |-> BufferGet(h.strain, e).val, hit |-> TRUE]
    ELSE [h |-> [h EXCEPT !.displ = BufferGet(@, e).buf],
          ref |-> BufferGet(h.displ, e).val, hit |-> TRUE]

\* `if id_elem not in buffer: ... buffer.add(...) else: ... buffer.get(...)`
\* of lines 677-706, 721-745, 751-768: [h, ref, hit]
ArrayOf(h, which, cap, e) ==
    IF BufferContains(IF which = "strain" THEN h.strain ELSE h.displ, e)
    THEN GetFrom(h, which, e)
    ELSE [h |-> AddLast(NewArray(h, ElementTensor(e)), which, cap, e),
          ref |-> Len(h.arrays) + 1, hit |-> FALSE]

\* FlipTarget with the flip applied to `strain`.
FlipTargetStrain(strain_ref, final_ref) == strain_ref

\* lines 715-716: the array whose channels 3 and 5 change sign.
FlipTarget(strain_ref, final_ref) == final_ref

\* lines 714-716 on h, whose last array is final_strain.
SignFlip(h, excitation, target) ==
    IF excitation # "monopole"
    THEN WriteInPlace(h, target, FlipChannels(h.arrays[target]))
    ELSE h

\* lines 708-718, r = [h, ref, hit] being `strain`.
InterpolateStrain(r, excitation, pt) ==
    [h |-> SignFlip(NewArray(r.h, Interpolate(r.h.arrays[r.ref], pt)), excitation,
                    FlipTarget(r.ref, Len(r.h.arrays) + 1)),
     ref |-> Len(r.h.arrays) + 1, hit |-> r.hit]

\* lines 770-776, r being `utemp`.
InterpolateDispl(r, pt) ==
    [h |-> NewArray(r.h, Interpolate(r.h.arrays[r.ref], pt)),
     ref |-> Len(r.h.arrays) + 1, hit |-> r.hit]

\* which extraction a source kind runs on database d.
PathOf(d, kind) ==
    IF d.reciprocal
    THEN IF kind = "Source"
         THEN (IF d.dump_type = "displ_only" THEN "interp" ELSE "strain")
         ELSE (IF d.dump_type = "displ_only" THEN "displ" ELSE "none")
    ELSE IF kind = "Source" /\ d.dump_type = "displ_only" THEN "displ" ELSE "none"

\* __get_strain_interp, __get_strain, __get_displacement: [h, ref, hit],
\* ref the array that is returned.
ExtractArray(h, d, path, excitation, e, pt) ==
    CASE path = "interp" ->
             InterpolateStrain(ArrayOf(h, "strain", StrainCap(d), e), excitation, pt)
      [] path = "strain" -> ArrayOf(h, "strain", StrainCap(d), e)
      [] path = "displ" ->
             InterpolateDispl(ArrayOf(h, "displ", DisplCap(d), e), pt)

\* lines 361-398, 426-456, 480-490: final = np.zeros(...); final += ...
Combined(r) ==
    [r EXCEPT !.h = WriteInPlace(NewArray(r.h, [i \in 1..6 |-> 0]), Len(r.h.arrays) + 1,
                                 r.h.arrays[r.ref])]

\* lines 536-561: a trimmed trace is a view of final, a reconvolved one is
\* the new array irfft returns.
Processed(r, reconvolve_stf) ==
    IF reconvolve_stf
    THEN [r EXCEPT !.h = NewArray(r.h, r.h.arrays[LastRef(r.h)])]
    ELSE r

\* lines 625-629: data_summed[comp] = data[comp] * corr_fac, then
\* data_summed[comp] += data[comp] * corr_fac.
Summed(r, finite) ==
    IF ~finite THEN r
    ELSE IF r.h.summed = 0
    THEN [r EXCEPT !.h = [NewArray(r.h, r.h.arrays[LastRef(r.h)])
                            EXCEPT !.summed = Len(r.h.arrays) + 1]]
    ELSE [r EXCEPT !.h = WriteInPlace(r.h, r.h.summed,
                             [i \in 1..6 |-> r.h.arrays[r.h.summed][i]
                                               + r.h.arrays[LastRef(r.h)][i]])]

\* one synthesis, as a call of get_seismograms (finite = FALSE) or as one
\* sub-source of get_seismograms_finite_source.
ArrayCallOp(h, d, path, excitation, e, pt, finite) ==
    Summed(Processed(Combined(ExtractArray(h, d, path, excitation, e, pt)), finite),
           finite)

ArrayProbe(p, r, path, e, pt) ==
    [op |-> "arrays", excitation |-> p.excitation, calls |-> p.calls + 1,
     h |-> r.h, returned |-> p.returned \cup
         {[path |-> path, id |-> e, pt |-> pt, hit |-> r.hit,
           tensor |-> r.h.arrays[r.ref]]}]

\* a mesh of some excitation type is opened with empty buffers.
ArrayStart ==
    /\ Idle
    /\ \E excitation \in ExcitationTypes :
          probe' = [op |-> "arrays", excitation |-> excitation, calls |-> 0,
                    h |-> [arrays |-> <<>>, at_add |-> <<>>, strain |-> <<>>,
                          displ |-> <<>>, late |-> {}, summed |-> 0],
                    returned |-> {}]
    /\ UNCHANGED <<db, strain_buffer, displ_buffer, extracted, call, fs>>

ArrayCall ==
    /\ probe.op = "arrays"
    /\ probe.calls < MaxArrayCalls
    /\ \E kind \in {"Source", "ForceSource"}, e \in ArrayElems, pt \in LocalPoints, finite \in BOOLEAN :
          /\ PathOf(db, kind) # "none"
          /\ finite => db.reciprocal
          /\ probe' = ArrayProbe(probe,
                          ArrayCallOp(probe.h, db, PathOf(db, kind), probe.excitation,
                                      e, pt, finite),
                          PathOf(db, kind), e, pt)
    /\ UNCHANGED <<db, strain_buffer, displ_buffer, extracted, call, fs>>

NextArrays == ArrayStart \/ ArrayCall \/ Release

SpecArrays == Init /\ [][NextArrays]_vars

\* ------------------------------------------- decoding the stored channels
MaxNpol == 5

DisplChannels == <<"disp_s", "disp_p", "disp_z">>

StrainChannels ==
    <<"strain_dsus", "strain_dsuz", "strain_dpup", "strain_dsup", "strain_dzup",
      "straintrace">>

\* lines 693, 764: the column of temp that goes to utemp[:, jpol, ipol, i].
DecodeIndex(npol, ipol, jpol) == ipol * 5 + jpol

\* temp = mesh_dict[var][:, gll_point_ids.flatten()] has one column for
\* each of the (npol + 1) ** 2 nodes; a column beyond them is an IndexError.
OutOfBounds(npol) ==
    \E ipol, jpol \in 0..npol : DecodeIndex(npol, ipol, jpol) >= (npol + 1) * (npol + 1)

\* utemp[:, jpol, ipol, i] for one channel: the column read, counted from 1
\* (0: the zero utemp was created with).
DecodeChannel(npol, stored) ==
    [n \in (0..npol) \X (0..npol) |->
        IF stored THEN DecodeIndex(npol, n[2], n[1]) + 1 ELSE 0]

\* lines 681-693 and 752-764: [err, utemp]
DecodeNodal(npol, present) ==
    IF present # {} /\ OutOfBounds(npol)
    THEN [err |-> "IndexError", utemp |-> <<>>]
    ELSE [err |-> "ok",
          utemp |-> [i \in 1..3 |-> DecodeChannel(npol, DisplChannels[i] \in present)]]

\* lines 722-730: strain_temp, zero where the variable is not stored.
StrainTemp(stored, present) ==
    [i \in 1..6 |-> IF StrainChannels[i] \in present THEN stored[i] ELSE 0]

\* VoigtMap without the two sign changes.
VoigtMapUnsigned(strain_temp) ==
    <<strain_temp[1], strain_temp[3],
      strain_temp[6] - strain_temp[1] - strain_temp[3],
      strain_temp[5], strain_temp[2], strain_temp[4]>>

\* lines 732-742: dsus, dpup, dzuz, dzup, dsuz, dsup
VoigtMap(strain_temp) ==
    <<strain_temp[1], strain_temp[3],
      strain_temp[6] - strain_temp[1] - strain_temp[3],
      0 - strain_temp[5], strain_temp[2], 0 - strain_temp[4]>>

\* the miss branch of __get_strain_interp or __get_displacement on a mesh
\* of polynomial order npol that stores the variables in `present`.
DecodeNodalStep ==
    /\ Idle
    /\ db.dump_type = "displ_only"
    /\ \E path \in {"interp", "displ"}, npol \in 1..MaxNpol, present \in SUBSET Range(DisplChannels) :
          probe' = [op |-> "decode", path |-> path, npol |-> npol,
                    present |-> present, result |-> DecodeNodal(npol, present)]
    /\ UNCHANGED <<db, strain_buffer, displ_buffer, extracted, call, fs>>

\* the miss branch of __get_strain.
DecodeStrainStep ==
    /\ Idle
    /\ db.reciprocal /\ db.dump_type # "displ_only"
    /\ \E stored \in {[i \in 1..6 |-> scale * (2 ^ (i - 1))] : scale \in {1, -1}}, present \in SUBSET Range(StrainChannels) :
          probe' = [op |-> "strain", stored |-> stored, present |-> present,
                    result |-> VoigtMap(StrainTemp(stored, present))]
    /\ UNCHANGED <<db, strain_buffer, displ_buffer, extracted, call, fs>>

NextDecode == DecodeNodalStep \/ DecodeStrainStep \/ Release

SpecDecode == Init /\ [][NextDecode]_vars

\* =================================================================== claims
IsCall == call.op = "get_seismograms"

Accessed == call.reads \cup call.consulted \cup call.added

CapabilityErrors ==
    {"ValueError: vertical component only DB",
     "ValueError: horizontal component only DB"}

MissingPX == NeedsX(call.args.components) /\ "px" \notin db.meshes

MissingPZ == NeedsZ(call.args.components) /\ "pz" \notin db.meshes

\* C1: on a reciprocal database a get_seismograms call that requests any of
\* N, E, R, T without the PX mesh, or Z without the PZ mesh, fails with the
\* capability-mismatch error, and it fails before any file access: no
\* spatial-index query, no mesh-variable read, no snapshot read, no cache
\* access.
C1_MismatchBeforeAccess ==
    (IsCall /\ db.reciprocal /\ (MissingPX \/ MissingPZ))
        => /\ call.status = "error"
           /\ call.err \in CapabilityErrors
           /\ call.geom = {}
           /\ call.tested = 0
           /\ Accessed = {}

\* Z requested from a database opened with the horizontal-force mesh only.
C1_Witness ==
    /\ IsCall /\ db.reciprocal /\ db.meshes = {"px"}
    /\ call.args.components = <<"Z">>
    /\ call.err = "ValueError: horizontal component only DB"

ForceOnForward == ~db.reciprocal /\ call.args.source.kind = "ForceSource"

DumpOnForward == ~db.reciprocal /\ db.dump_type # "displ_only"

ForceOnStrainDump ==
    /\ db.reciprocal /\ call.args.source.kind = "ForceSource"
    /\ db.dump_type # "displ_only"

\* C2: a force source on a forward database, a dump type other than
\* displ_only on a forward database, and a force source on a reciprocal
\* database whose dump type is not displ_only each make get_seismograms fail
\* instead of returning data, with no stored field samples read and no entry
\* added to any strain or displacement buffer.
C2_UnsupportedFailsUnread ==
    (IsCall /\ (ForceOnForward \/ DumpOnForward \/ ForceOnStrainDump))
        => /\ call.status = "error"
           /\ call.data = <<>>
           /\ call.reads = {}
           /\ call.added = {}

\* a force source reaches the dump-type check of a reciprocal strain database.
C2_Witness ==
    /\ IsCall /\ ForceOnStrainDump
    /\ call.err = "ValueError: Force sources only in displ_only mode"
    /\ call.geom # {}

\* C3: extracting the same element twice from the same mesh, through any of
\* the three extraction paths and for every database mode and source type
\* (the displacement path of force sources on a reciprocal database
\* included), returns identical tensors, and the second extraction reads
\* nothing from raw storage.
C3_RepeatIsBuffered ==
    \A x \in call.extr :
        x.repeat => (~x.read /\ x.tensor = x.prev_tensor)

\* the meshes a requested tuple depends on: Z on PZ, the horizontal
\* components on PX; in forward mode T on MXZ_MYZ and MXY_MXX_M_MYY only,
\* every other component on all four meshes.
MeshNeeded(m, components) ==
    CASE m = "pz" -> NeedsZ(components)
      [] m = "px" -> NeedsX(components)
      [] m \in {"m1", "m2"} -> Range(components) \ {"T"} # {}
      [] m \in {"m3", "m4"} -> Range(components) # {}

\* C4 as stated: in reciprocal and in forward mode alike, a mesh's stored
\* fields are read, or its buffer consulted, only if a requested component
\* needs that mesh.
C4_LazyInBothModes ==
    IsCall => \A m \in Accessed : MeshNeeded(m, call.args.components)

\* C4 amended: on a reciprocal database a mesh's stored fields are read, or
\* its buffer consulted, only if a requested component needs that mesh (PZ
\* only for Z; PX only for N, E, R, T); on a forward database every call
\* that extracts at all extracts from all four moment-tensor meshes,
\* whatever was requested.
C4_LazyReciprocalOnly ==
    IsCall =>
        /\ db.reciprocal => \A m \in Accessed : MeshNeeded(m, call.args.components)
        /\ (~db.reciprocal /\ Accessed # {}) => call.consulted = FwdMeshes

\* both force meshes are open, only Z is requested, only PZ is touched.
C4_Witness ==
    /\ IsCall /\ db.reciprocal /\ db.meshes = BwdMeshes
    /\ call.args.components = <<"Z">>
    /\ call.status = "ok"
    /\ call.consulted = {"pz"}

\* ------------------------------------------------ finite-source claims
\* how often a name occurs in the requested tuple.
Occ(c, components) == Cardinality({i \in 1..Len(components) : components[i] = c})

CountOp(ops, name) == Cardinality({i \in 1..Len(ops) : ops[i] = name})

Cancelled == \E k \in 1..Len(fs.callbacks) : fs.callbacks[k].cancel

\* C5: the progress callback is invoked exactly once after each processed
\* sub-source, in input order, with (sub-sources completed counted from 1,
\* total count); once an invocation signals cancellation the call returns
\* None, no later sub-source is synthesized, the callback is not invoked
\* again and the partial sums are not exposed.
C5_ProgressAndCancel ==
    /\ \A k \in 1..Len(fs.callbacks) :
          /\ fs.callbacks[k].args = <<k, Len(fs.sources)>>
          /\ fs.callbacks[k].cancel => k = Len(fs.callbacks)
    /\ \A k \in 1..Len(fs.subcalls) : fs.subcalls[k].source = fs.sources[k]
    /\ Len(fs.parts) = fs.i
    /\ Len(fs.callbacks) = IF fs.has_callback THEN fs.i ELSE 0
    /\ Cancelled => /\ fs.pc = "done"
                    /\ fs.result = "None"
                    /\ fs.data = <<>>
                    /\ Len(fs.subcalls) = Len(fs.callbacks)
    /\ fs.result = "None" => Cancelled

\* the first of two sub-sources is done and its callback cancels the run.
C5_Witness ==
    /\ fs.pc = "done" /\ fs.result = "None"
    /\ Len(fs.sources) = 2
    /\ Len(fs.subcalls) = 1
    /\ fs.callbacks = <<[args |-> <<1, 2>>, cancel |-> TRUE]>>

\* the single-source result: what the same finite-source call returns for
\* the one-element list <<s>>, reconvolution forced on and correct_mu off.
SingleSource(s, c) ==
    Accumulate(<<>>,
               GetSeismogramsOp(db, EmptyBuffers, EmptyBuffers, NoExtraction,
                                SubCallArgs(s, fs.receiver, fs.components)).data,
               fs.components, 1, CorrFac(FALSE, None))[c].amp

RECURSIVE SumOfSingles(_, _)
SumOfSingles(k, c) ==
    IF k = 0 THEN 0
    ELSE SingleSource(fs.sources[k], c) + SumOfSingles(k - 1, c)

\* C6: in every finite-source run that completes, with correct_mu off, each
\* output component is the plain sum, over the sub-sources of the list, of
\* the single-source result with reconvolution forced on: N identical
\* sub-sources give N times the single-source result, and the sum does not
\* depend on the order of the list.
C6_PlainSum ==
    (fs.result = "stream" /\ ~fs.correct_mu)
        => \A c \in Range(fs.components) :
              fs.data[c].amp = SumOfSingles(Len(fs.sources), c)

\* two identical sub-sources give twice the single-source result.
C6_Witness ==
    /\ fs.result = "stream" /\ ~fs.correct_mu
    /\ fs.sources = <<SrcA, SrcA>>
    /\ fs.components = <<"Z">>
    /\ SingleSource(SrcA, "Z") # 0
    /\ fs.data["Z"].amp = 2 * SingleSource(SrcA, "Z")

\* C7: every sub-source is synthesized with reconvolution forced on and
\* without resampling; resampling to the target interval is applied to the
\* completed sums only, after the last sub-source was accumulated, once in
\* each pass of the loop over the requested tuple (once per component when
\* no name is repeated); never per sub-source and never in a run that was
\* cancelled or failed.
C7_ResampleCompletedSum ==
    /\ \A k \in 1..Len(fs.subcalls) :
          fs.subcalls[k].reconvolve_stf /\ fs.subcalls[k].dt = None
    /\ \A k \in 1..Len(fs.parts) : \A c \in DOMAIN fs.parts[k] :
          /\ CountOp(fs.parts[k][c].ops, "resample") = 0
          /\ CountOp(fs.parts[k][c].ops, "reconvolve") > 0
    /\ \A c \in DOMAIN fs.data_summed :
          CountOp(fs.data_summed[c].ops, "resample") = 0
    /\ fs.result = "stream" =>
          /\ fs.i = Len(fs.sources)
          /\ \A c \in Range(fs.components) :
                CountOp(fs.data[c].ops, "resample")
                    = IF fs.dt # None THEN Occ(c, fs.components) ELSE 0
    /\ fs.result # "stream" => fs.data = <<>>

\* two sub-sources were summed and the sum of Z was resampled once.
C7_Witness ==
    /\ fs.result = "stream" /\ Len(fs.sources) = 2
    /\ fs.dt = 2 * DbDt
    /\ fs.components = <<"Z">>
    /\ fs.data["Z"].ops = <<"reconvolve", "resample">>

\* C8: get_seismograms_finite_source on a forward database fails with the
\* unsupported-operation error before any sub-source is synthesized and
\* before the progress callback is invoked.
C8_ForwardFiniteFails ==
    (~db.reciprocal /\ fs.pc # "idle")
        => /\ fs.pc = "done"
           /\ fs.result = "error"
           /\ fs.err = "NotImplementedError"
           /\ fs.subcalls = <<>>
           /\ fs.callbacks = <<>>
           /\ fs.data = <<>>

\* a forward database is given two sub-sources and a callback.
C8_Witness ==
    /\ ~db.reciprocal /\ fs.pc = "done" /\ fs.result = "error"
    /\ Len(fs.sources) = 2 /\ fs.has_callback

\* ------------------------------------------------ post-processing claims
NoStf(src) == src.dt = None \/ src.sliprate = None

\* the relative difference of the sample intervals exceeds 1e-7.
DtOff(src) == src.dt # None /\ Abs(src.dt - DbDt) * TolInv > DbDt

DtError == "ValueError: dt of the source not compatible"

StfError == "RuntimeError: source has no source time function"

\* C9 as stated: whenever get_seismograms is called with reconvolve_stf
\* set, the call fails if the source has no time function (dt or sliprate
\* absent) or its sample interval is off by more than 1e-7, relatively; the
\* missing time function is reported in preference.
C9_ReconvolveAlwaysChecked ==
    (IsCall /\ call.args.reconvolve_stf
        /\ (NoStf(call.args.source) \/ DtOff(call.args.source)))
        => /\ call.status = "error"
           /\ NoStf(call.args.source) => call.err # DtError

\* C9 amended: whenever get_seismograms is called with reconvolve_stf set
\* and at least one requested component, the call fails if the source has
\* no time function or its sample interval is off by more than 1e-7,
\* relatively; the missing time function is reported in preference, and a
\* relative difference of exactly 1e-7 is accepted.
C9_ReconvolveCheckedPerComponent ==
    /\ (IsCall /\ call.args.reconvolve_stf /\ call.args.components # <<>>
          /\ (NoStf(call.args.source) \/ DtOff(call.args.source)))
          => /\ call.status = "error"
             /\ NoStf(call.args.source) => call.err # DtError
    /\ (IsCall /\ call.err \in {DtError, StfError})
          => /\ call.args.reconvolve_stf
             /\ call.err = StfError <=> NoStf(call.args.source)
             /\ call.err = DtError => DtOff(call.args.source)

\* the source has no sliprate and a sample interval that is off as well.
C9_Witness ==
    /\ IsCall /\ call.args.reconvolve_stf
    /\ call.args.source = SrcNoSliprate
    /\ call.args.components # <<>>
    /\ call.err = StfError

\* the steps one pass of the post-processing loop applies, in order.
PassOps(a) ==
    (IF a.remove_source_shift /\ ~a.reconvolve_stf THEN <<"trim">>
     ELSE IF a.reconvolve_stf THEN <<"reconvolve">>
     ELSE <<>>)
    \o (IF a.dt # None THEN <<"resample">> ELSE <<>>)

RECURSIVE Repeated(_, _)
Repeated(ops, k) == IF k = 0 THEN <<>> ELSE ops \o Repeated(ops, k - 1)

\* C10: each pass of the post-processing loop over the requested tuple runs
\* trim-or-reconvolve, then resample: the leading source_shift_samp samples
\* are dropped iff remove_source_shift is set and reconvolve_stf is not;
\* the trace is reconvolved iff reconvolve_stf is set (and then not
\* trimmed, whatever remove_source_shift is); resampling comes after both.
C10_PostProcessOrder ==
    (IsCall /\ call.status = "ok")
        => \A c \in Range(call.args.components) :
              call.data[c].ops
                  = Repeated(PassOps(call.args), Occ(c, call.args.components))

\* both flags set and a target interval given: reconvolved, not trimmed,
\* then resampled.
C10_Witness ==
    /\ IsCall /\ call.status = "ok"
    /\ call.args.remove_source_shift /\ call.args.reconvolve_stf
    /\ call.args.dt # None
    /\ call.args.components = <<"Z">>
    /\ call.data["Z"].ops = <<"reconvolve", "resample">>


\* ------------------------------------------------ depth-override claims
IsDepthCall == probe.op = "depth"

\* the depth the database fixes: the receiver's (reciprocal), the source's
\* (forward).
Override == IF db.reciprocal THEN probe.receiver_depth ELSE probe.source_depth

\* the same call with that depth set to None, on a freshly opened database.
WithoutOverride ==
    GetSeismogramsOp(db, EmptyBuffers, EmptyBuffers, NoExtraction,
        Args(call.args.source,
             RotateFrame(db, probe.pos,
                         IF db.reciprocal THEN None ELSE probe.receiver_depth,
                         IF db.reciprocal THEN probe.source_depth ELSE None),
             call.args.components, TRUE, FALSE, TRUE, None))

SameOutcome(o) ==
    call.status = o.status /\ call.err = o.err /\ call.data = o.data

OtherFailures ==
    CapabilityErrors \cup {"ValueError: Element not found", DtError, StfError}

\* C12: with return_obspy_stream off, get_seismograms for a moment-tensor
\* source on a reciprocal database returns the sample arrays together with
\* the local shear modulus for every dump type (displ_only, strain_only,
\* fullfields), unless the call fails for a reason that has nothing to do
\* with the output format.
C12_RawReturnEveryDump ==
    (IsCall /\ db.reciprocal /\ call.args.source.kind = "Source"
        /\ ~call.args.return_obspy_stream)
        => \/ call.status = "ok" /\ call.mu # None
           \/ call.err \in OtherFailures


\* ------------------------------------------------ database-mode claims
\* the open database is of one of the two valid kinds.
ValidMode ==
    \/ db.reciprocal /\ db.meshes # {} /\ db.meshes \subseteq BwdMeshes
    \/ ~db.reciprocal /\ db.meshes = FwdMeshes

\* what the open database holds is what was found on disk.
OpenedAsFound ==
    IF probe.result = "reciprocal"
    THEN /\ db.reciprocal
         /\ ("px" \in db.meshes) <=> (probe.found["PX"] = 1)
         /\ ("pz" \in db.meshes) <=> (probe.found["PZ"] = 1)
    ELSE IF probe.result = "forward"
    THEN /\ ~db.reciprocal
         /\ \A p \in MTPatterns : probe.found[p] = 1
    ELSE ~IsOpen

\* C13: every successfully opened database is either reciprocal with at
\* least one of the PX and PZ meshes, or forward with all four elemental
\* moment-tensor meshes (opening fails otherwise), and no call of
\* get_seismograms or get_seismograms_finite_source, successful or failing,
\* changes the mode or the mesh collection afterwards.
C13_ModeFixedAtOpen ==
    /\ [](IsOpen => ValidMode)
    /\ [](probe.op = "open" => OpenedAsFound)
    /\ [][IsOpen => db' = db]_vars

\* three of the four moment-tensor folders and a stray file: four files
\* found, opening fails.
C13_Witness ==
    /\ probe.op = "open"
    /\ probe.found["PX"] = 0 /\ probe.found["PZ"] = 0
    /\ Keys(probe.found) = MTPatterns \ {"MZZ"}
    /\ probe.found["OTHER"] = 1
    /\ probe.result = "InstaseisError"
    /\ ~IsOpen


\* ----------------------------------------------------------------------- C14
IsLocate == probe.op = "locate"

\* the candidates that were tested: the first `tested` of nextpoints.
TestedCandidates == SubSeq(probe.nextpoints, 1, probe.result.tested)

AllFail == \A i \in 1..Len(probe.nextpoints) : probe.nextpoints[i] \notin probe.inside

\* C14: on a displ_only database the KDisplOnly nearest candidates are tested
\* nearest first; the first one that passes the membership test is returned,
\* the local coordinates in use are those of that same candidate, no later
\* candidate is tested, and locating fails exactly when all candidates fail.
\* On strain_only and fullfields databases the one nearest element is taken
\* without any test and locating never fails.
C14_PointLocation ==
    IsLocate =>
        IF db.dump_type = "displ_only"
        THEN /\ Len(probe.nextpoints) = 6
             /\ probe.result.ok <=> ~AllFail
             /\ ~probe.result.ok => probe.result.tested = 6
             /\ probe.result.ok =>
                   /\ probe.result.tested \in 1..6
                   /\ probe.result.id = probe.nextpoints[probe.result.tested]
                   /\ probe.result.id \in probe.inside
                   /\ probe.result.coords_of = probe.result.id
                   /\ \A j \in 1..(probe.result.tested - 1) :
                         probe.nextpoints[j] \notin probe.inside
        ELSE /\ Len(probe.nextpoints) = 1
             /\ probe.result.ok
             /\ probe.result.id = probe.nextpoints[1]
             /\ probe.result.tested = 0

\* the nearest candidate fails, the second passes and so does a later one.
C14_Witness ==
    /\ IsLocate
    /\ db.dump_type = "displ_only"
    /\ probe.result.ok
    /\ probe.result.tested = 2
    /\ \E j \in 3..6 : probe.nextpoints[j] \in probe.inside


\* ----------------------------------------------------------------------- C15
IsReconvolve == probe.op = "reconvolve"

\* p is a power of two.
IsPow2(p) == \E k \in 0..(MaxNDumps + 2) : p = 2 ^ k

\* the smallest power of two above x, x itself counted or not.
Pow2Above(x) ==
    {p \in 1..(4 * x) : IsPow2(p) /\ p >= x /\ \A q \in 1..(p - 1) : IsPow2(q) => q <= x}

SpectraAndTruncation ==
    /\ probe.lens.stf_deconv_f.n = probe.nfft
    /\ probe.lens.stf_conv_f.n = probe.nfft
    /\ probe.lens.dataf.n = probe.nfft
    /\ probe.lens.stf_deconv_f.bins = probe.lens.stf_conv_f.bins
    /\ probe.lens.stf_deconv_f.bins = probe.lens.dataf.bins
    /\ probe.lens.out = probe.ndumps

\* C15 as stated: nfft is the next power of two above twice the dump count,
\* doubled again; the three spectra use that length and the reconvolved
\* trace has ndumps samples.
C15_NfftTwiceDoubled ==
    IsReconvolve =>
        /\ \E p \in Pow2Above(2 * probe.ndumps) : probe.nfft = 2 * p
        /\ SpectraAndTruncation

\* C15, amended: nfft is twice the smallest power of two that is not below
\* the dump count; the three spectra use that length and the reconvolved
\* trace has ndumps samples.
C15_NfftDoubledPow2 ==
    IsReconvolve =>
        /\ IsPow2(probe.nfft \div 2)
        /\ probe.nfft = 2 * (probe.nfft \div 2)
        /\ probe.nfft \div 2 >= probe.ndumps
        /\ \A q \in 1..(probe.nfft \div 2 - 1) : IsPow2(q) => q < probe.ndumps
        /\ SpectraAndTruncation

\* a dump count that is no power of two, with a substitute slip rate that is
\* longer than the dump count.
C15_Witness ==
    /\ IsReconvolve
    /\ probe.ndumps = 5
    /\ probe.nfft = 16
    /\ probe.stf_len > probe.ndumps - 1
    /\ probe.lens.out = 5


\* ----------------------------------------------------------------------- C16
\* the resampling kernel was called on component c of a returned result.
CallResampled(c) == CountOp(call.data[c].ops, "resample") > 0

FiniteResampled(c) == CountOp(fs.data[c].ops, "resample") > 0

\* C16 as stated: the resampling kernel is called on a component if and
\* only if a target interval is given and differs from the native one.
C16_ResampleIffDiffers ==
    /\ (IsCall /\ call.status = "ok")
          => \A c \in Range(call.args.components) :
                CallResampled(c) <=> (call.args.dt # None /\ call.args.dt # DbDt)
    /\ fs.result = "stream"
          => \A c \in Range(fs.components) :
                FiniteResampled(c) <=> (fs.dt # None /\ fs.dt # DbDt)

\* C16, amended: the resampling kernel is called on a component if and only
\* if a target interval is given, whether or not it equals the native one.
C16_ResampleIffGiven ==
    /\ (IsCall /\ call.status = "ok")
          => \A c \in Range(call.args.components) :
                CallResampled(c) <=> call.args.dt # None
    /\ fs.result = "stream"
          => \A c \in Range(fs.components) :
                FiniteResampled(c) <=> fs.dt # None

\* the native interval is asked for and the kernel is called all the same.
C16_Witness ==
    /\ IsCall /\ call.status = "ok"
    /\ call.args.dt = DbDt
    /\ call.args.components = <<"Z">>
    /\ call.data["Z"].ops = <<"trim", "resample">>


\* ----------------------------------------------------------------------- C17
IsArrays == probe.op = "arrays"

BufferedRefs ==
    {probe.h.strain[i].val : i \in 1..Len(probe.h.strain)}
        \cup {probe.h.displ[i].val : i \in 1..Len(probe.h.displ)}

\* C17: a tensor held by an extraction buffer is never modified after its
\* insertion: no in-place write (sign flip of channels 3 and 5, mechanism
\* combination, reconvolution, finite-source accumulation) goes to a
\* buffered array, every buffered array holds what it held when it was
\* added, and the tensor returned for an element and a local point is the
\* same on a buffer hit as on a miss.
C17_CachedTensorUntouched ==
    IsArrays =>
        /\ probe.h.late = {}
        /\ \A ref \in BufferedRefs : probe.h.arrays[ref] = probe.h.at_add[ref]
        /\ \A r1, r2 \in probe.returned :
              (r1.path = r2.path /\ r1.id = r2.id /\ r1.pt = r2.pt)
                  => r1.tensor = r2.tensor

\* a dipole or quadrupole mesh: the interpolated strain of an element was
\* returned from a miss and from a hit, at the same local point.
C17_Witness ==
    /\ IsArrays
    /\ probe.excitation # "monopole"
    /\ \E r1, r2 \in probe.returned :
          /\ r1.path = "interp" /\ r2.path = "interp"
          /\ r1.id = r2.id /\ r1.pt = r2.pt
          /\ ~r1.hit /\ r2.hit
          /\ r1.tensor[4] < 0


\* ----------------------------------------------------------------------- C18
\* the steps a component went through, each exactly once.
OncePerComponent(ops, a) ==
    /\ CountOp(ops, "trim") = IF a.remove_source_shift /\ ~a.reconvolve_stf THEN 1 ELSE 0
    /\ CountOp(ops, "reconvolve") = IF a.reconvolve_stf THEN 1 ELSE 0
    /\ CountOp(ops, "resample") = IF a.dt # None THEN 1 ELSE 0

\* the length of a returned array before any resampling.
LengthBeforeResampling(a) ==
    IF a.remove_source_shift /\ ~a.reconvolve_stf THEN NDumps - SourceShiftSamp
    ELSE NDumps

\* what the sub-sources 1..k returned for component c, added up.
RECURSIVE SumOfParts(_, _)
SumOfParts(k, c) ==
    IF k = 0 THEN 0 ELSE fs.parts[k][c].amp + SumOfParts(k - 1, c)

\* C18: for every tuple of requested names each requested component is
\* post-processed exactly once, so all arrays one get_seismograms call
\* returns have the same length (ndumps - source_shift_samp when trimmed,
\* ndumps otherwise, before resampling), and each sub-source contributes
\* exactly once to each component sum of a finite-source run.
C18_OncePerRequestedName ==
    /\ (IsCall /\ call.status = "ok")
          => /\ \A c \in Range(call.args.components) :
                   /\ OncePerComponent(call.data[c].ops, call.args)
                   /\ call.args.dt = None
                         => call.data[c].n = LengthBeforeResampling(call.args)
             /\ \A c1, c2 \in Range(call.args.components) :
                   call.data[c1].n = call.data[c2].n
    /\ (fs.result = "stream" /\ ~fs.correct_mu)
          => \A c \in Range(fs.components) :
                fs.data[c].amp = SumOfParts(Len(fs.sources), c)


\* ----------------------------------------------------------------------- C19
IsDecode == probe.op = "decode"

\* C19: for every polynomial order npol the sample of the node with
\* flattened storage index ipol * (npol + 1) + jpol goes to
\* utemp[:, jpol, ipol, channel]; so each of the (npol + 1) ** 2 nodes is
\* read exactly once and no index beyond them is accessed.
C19_DecodeEveryOrder ==
    IsDecode =>
        /\ probe.result.err = "ok"
        /\ \A i \in 1..3 :
              /\ DOMAIN probe.result.utemp[i] = (0..probe.npol) \X (0..probe.npol)
              /\ DisplChannels[i] \in probe.present =>
                    \A ipol, jpol \in 0..probe.npol :
                       probe.result.utemp[i][<<jpol, ipol>>]
                           = ipol * (probe.npol + 1) + jpol + 1

\* ----------------------------------------------------------------------- C20
IsStrainDecode == probe.op = "strain"

\* the stored value of a strain variable, 0 when it is not stored.
StoredOrZero(i) == IF StrainChannels[i] \in probe.present THEN probe.stored[i] ELSE 0

\* C20: a channel missing from storage is exactly zero in all three
\* extraction paths and is never the cause of a failure (a decode that fails
\* holds a stored channel); for whole-element strain the stored channels
\* (dsus, dsuz, dpup, dsup, dzup, trace) are mapped to (dsus, dpup,
\* trace - dsus - dpup, -dzup, dsuz, -dsup) with missing ones taken as zero.
C20_MissingChannelsZero ==
    /\ IsDecode =>
          /\ probe.present = {} => probe.result.err = "ok"
          /\ probe.result.err = "ok" =>
                \A i \in 1..3 : DisplChannels[i] \notin probe.present =>
                    \A n \in DOMAIN probe.result.utemp[i] :
                       probe.result.utemp[i][n] = 0
          /\ probe.result.err # "ok" =>
                DecodeNodal(probe.npol, Range(DisplChannels)).err # "ok"
    /\ IsStrainDecode =>
          /\ probe.result[1] = StoredOrZero(1)
          /\ probe.result[2] = StoredOrZero(3)
          /\ probe.result[3] = StoredOrZero(6) - StoredOrZero(1) - StoredOrZero(3)
          /\ probe.result[4] = 0 - StoredOrZero(5)
          /\ probe.result[5] = StoredOrZero(2)
          /\ probe.result[6] = 0 - StoredOrZero(4)
          /\ StrainChannels[5] \notin probe.present => probe.result[4] = 0
          /\ StrainChannels[4] \notin probe.present => probe.result[6] = 0

\* the trace and dsup are stored, dsus and dzup are not.
C20_Witness ==
    /\ IsStrainDecode
    /\ probe.present = {"straintrace", "strain_dsup", "strain_dpup"}
    /\ probe.result = <<0, 4, 28, 0, 0, -8>>

====
